---- MODULE Spec2Model ----
(***************************************************************************)
(* Model of gitcontribs.py: the commit source (get_commits), the           *)
(* aggregator (calculate_stats), the heatmap renderer                      *)
(* (generate_ascii_graph) and the driver (main).                           *)
(*                                                                         *)
(* Strings are sequences of Unicode code points, so that Python's string   *)
(* ordering, str.split and column positions are computed, not assumed.     *)
(* A datetime.date is a triple <<year, month, day>>.                       *)
(***************************************************************************)
EXTENDS Integers, Sequences, FiniteSets, TLC

VARIABLES pc, repos, idx, all_commits, cwd, stats, graph, calls, days, today

vars == <<pc, repos, idx, all_commits, cwd, stats, graph, calls, days, today>>

(***************************************************************************)
(* Bounds of the model.                                                    *)
(***************************************************************************)
MaxCommits == 3     \* longest commit sequence handed to calculate_stats
MaxDays == 4        \* largest --days
MaxKeys == 2        \* most keys of a commits_by_date handed to the renderer
MaxRepos == 2       \* most repositories discovered
MaxPerRepo == 2     \* most records one git log returns

(***************************************************************************)
(* Strings.                                                                *)
(***************************************************************************)
Space == <<32>>
Dash == <<45>>
Newline == <<10>>

Digit(n) == 48 + n

Pad2(n) == <<Digit(n \div 10), Digit(n % 10)>>

Pad4(n) == <<Digit(n \div 1000), Digit((n \div 100) % 10),
             Digit((n \div 10) % 10), Digit(n % 10)>>

\* " " * n
RECURSIVE Spaces(_)
Spaces(n) == IF n <= 0 THEN <<>> ELSE Space \o Spaces(n - 1)

\* Python's < on str: lexicographic by code point, a proper prefix is smaller.
RECURSIVE StrLess(_, _)
StrLess(a, b) ==
    IF b = <<>> THEN FALSE
    ELSE IF a = <<>> THEN TRUE
    ELSE IF Head(a) # Head(b) THEN Head(a) < Head(b)
    ELSE StrLess(Tail(a), Tail(b))

StrLeq(a, b) == ~StrLess(b, a)

\* str.split(sep) for a one-character sep: the pieces between separators.
RECURSIVE SplitFrom(_, _, _, _)
SplitFrom(s, sep, i, cur) ==
    IF i > Len(s) THEN <<cur>>
    ELSE IF s[i] = sep THEN <<cur>> \o SplitFrom(s, sep, i + 1, <<>>)
    ELSE SplitFrom(s, sep, i + 1, Append(cur, s[i]))

split(s, sep) == SplitFrom(s, sep, 1, <<>>)

\* str.split(): the pieces between runs of whitespace, empty pieces dropped.
split_ws(s) == SelectSeq(split(s, 32), LAMBDA t : t # <<>>)

\* sep.join(lines)
RECURSIVE join(_, _)
join(sep, lines) ==
    IF lines = <<>> THEN <<>>
    ELSE IF Len(lines) = 1 THEN lines[1]
    ELSE lines[1] \o sep \o join(sep, Tail(lines))

(***************************************************************************)
(* datetime.date, timedelta(days = n) and strftime.                        *)
(***************************************************************************)
IsLeap(y) == (y % 4 = 0) /\ ((y % 100 # 0) \/ (y % 400 = 0))

DaysInMonth(y, m) ==
    IF m = 2 THEN (IF IsLeap(y) THEN 29 ELSE 28)
    ELSE IF m \in {4, 6, 9, 11} THEN 30 ELSE 31

NextDay(d) ==
    IF d[3] < DaysInMonth(d[1], d[2]) THEN <<d[1], d[2], d[3] + 1>>
    ELSE IF d[2] < 12 THEN <<d[1], d[2] + 1, 1>>
    ELSE <<d[1] + 1, 1, 1>>

PrevDay(d) ==
    IF d[3] > 1 THEN <<d[1], d[2], d[3] - 1>>
    ELSE IF d[2] > 1 THEN <<d[1], d[2] - 1, DaysInMonth(d[1], d[2] - 1)>>
    ELSE <<d[1] - 1, 12, 31>>

\* d - datetime.timedelta(days = n)
RECURSIVE DateMinus(_, _)
DateMinus(d, n) ==
    IF n = 0 THEN d
    ELSE IF n > 0 THEN DateMinus(PrevDay(d), n - 1)
    ELSE DateMinus(NextDay(d), n + 1)

\* d1 <= d2 on datetime.date
DateLeq(d1, d2) ==
    \/ d1[1] < d2[1]
    \/ d1[1] = d2[1] /\ d1[2] < d2[2]
    \/ d1[1] = d2[1] /\ d1[2] = d2[2] /\ d1[3] <= d2[3]

\* d.strftime("%Y-%m-%d")
strftime_ymd(d) == Pad4(d[1]) \o Dash \o Pad2(d[2]) \o Dash \o Pad2(d[3])

(***************************************************************************)
(* Commit records: the dictionaries json.loads makes of git log's lines.   *)
(* "date" is the %ad field under --date=iso: "YYYY-MM-DD HH:MM:SS +ZZZZ".  *)
(***************************************************************************)
None == [none |-> TRUE]

EmptyDict == [k \in {} |-> 0]

Commit(h, ts) == [hash |-> h, date |-> ts]

\* 12:00:00 +0000, 23:30:00 +0000, 09:15:00 -0500
TimeNoon == <<49,50,58,48,48,58,48,48,32,43,48,48,48,48>>
TimeLate == <<50,51,58,51,48,58,48,48,32,43,48,48,48,48>>
TimeWest == <<48,57,58,49,53,58,48,48,32,45,48,53,48,48>>

IsoDate(d, t) == strftime_ymd(d) \o Space \o t

(***************************************************************************)
(* get_commits                                                             *)
(***************************************************************************)
\* a commit of a repository's history; quote says that its subject holds a
\* double quote, which makes its line of git log's output invalid JSON
HistoryCommit(h, ts, q) == [hash |-> h, date |-> ts, quote |-> q]

\* the time of day of datetime.datetime.now(): 15:00:00 +0000
NowTime == <<49,53,58,48,48,58,48,48,32,43,48,48,48,48>>

\* git log --since=<YYYY-MM-DD>: git reads a date without a time as that day
\* at the current time of day and lists the commits not older than it
GitLogLines(history, since_date) ==
    SelectSeq(history,
              LAMBDA c : StrLeq(since_date \o Space \o NowTime, c.date))

\* for line in output.strip().split("\n"): commits.append(json.loads(line))
ParseLines(lines) ==
    IF \E i \in DOMAIN lines : lines[i].quote
    THEN [error |-> "JSONDecodeError", commits |-> <<>>]
    ELSE [error |-> "none",
          commits |-> [i \in DOMAIN lines |-> Commit(lines[i].hash, lines[i].date)]]

\* the except clause forgetting to change back
get_commits_NoRestoreOnError(repo_path, n, now, cwd0, env) ==
    LET since_date == strftime_ymd(DateMinus(now, n))
        original_dir == cwd0
    IN  IF env.chdir = "OSError"
        THEN [raised |-> TRUE, outcome |-> "OSError", result |-> <<>>, cwd |-> cwd0]
        ELSE IF env.git = "FileNotFoundError"
        THEN [raised |-> TRUE, outcome |-> "FileNotFoundError", result |-> <<>>,
              cwd |-> repo_path]
        ELSE IF env.git = "CalledProcessError"
        THEN [raised |-> FALSE, outcome |-> "CalledProcessError", result |-> <<>>,
              cwd |-> repo_path]
        ELSE LET parsed == ParseLines(GitLogLines(env.history, since_date))
             IN  IF parsed.error = "JSONDecodeError"
                 THEN [raised |-> FALSE, outcome |-> "JSONDecodeError",
                       result |-> <<>>, cwd |-> original_dir]
                 ELSE [raised |-> FALSE, outcome |-> "ok",
                       result |-> parsed.commits, cwd |-> original_dir]

\* env is what the call meets outside the program: whether os.chdir works,
\* how the git process ends, and the repository's history in git log's order.
\* now stands for datetime.datetime.now(), cwd0 for the working directory at
\* the call.  The value gives the list returned or that an exception left
\* the function, and the working directory the call leaves behind.
get_commits(repo_path, n, now, cwd0, env) ==
    LET since_date == strftime_ymd(DateMinus(now, n))
        original_dir == cwd0
    IN  IF env.chdir = "OSError"
        THEN \* os.chdir raises, no except clause matches
             [raised |-> TRUE, outcome |-> "OSError", result |-> <<>>, cwd |-> cwd0]
        ELSE IF env.git = "FileNotFoundError"
        THEN \* no git executable: check_output raises, no except clause matches
             [raised |-> TRUE, outcome |-> "FileNotFoundError", result |-> <<>>,
              cwd |-> repo_path]
        ELSE IF env.git = "CalledProcessError"
        THEN [raised |-> FALSE, outcome |-> "CalledProcessError", result |-> <<>>,
              cwd |-> original_dir]
        ELSE LET parsed == ParseLines(GitLogLines(env.history, since_date))
             IN  IF parsed.error = "JSONDecodeError"
                 THEN [raised |-> FALSE, outcome |-> "JSONDecodeError",
                       result |-> <<>>, cwd |-> original_dir]
                 ELSE [raised |-> FALSE, outcome |-> "ok",
                       result |-> parsed.commits, cwd |-> original_dir]

(***************************************************************************)
(* calculate_stats                                                         *)
(***************************************************************************)
\* the loop with the increment lost: a seen key is set to 1 again
RECURSIVE CountByDate_NoIncrement(_, _)
CountByDate_NoIncrement(commits, acc) ==
    IF commits = <<>> THEN acc
    ELSE LET date_str == split_ws(Head(commits).date)[1]
         IN  CountByDate_NoIncrement(Tail(commits),
                 IF date_str \in DOMAIN acc
                 THEN [acc EXCEPT ![date_str] = 1]
                 ELSE acc @@ (date_str :> 1))

\* the for loop over commits: the date part of each record's timestamp
\* gets its bucket incremented, an unseen key starting at 1
RECURSIVE CountByDate(_, _)
CountByDate(commits, acc) ==
    IF commits = <<>> THEN acc
    ELSE LET date_str == split_ws(Head(commits).date)[1]
         IN  CountByDate(Tail(commits),
                 IF date_str \in DOMAIN acc
                 THEN [acc EXCEPT ![date_str] = @ + 1]
                 ELSE acc @@ (date_str :> 1))

\* sorted(commits, key = lambda x: x["date"]): a stable sort, so a record is
\* placed after every record whose key is not greater than its own
RECURSIVE InsertByDate(_, _)
InsertByDate(srt, c) ==
    IF srt = <<>> THEN <<c>>
    ELSE IF StrLess(c.date, Head(srt).date) THEN <<c>> \o srt
    ELSE <<Head(srt)>> \o InsertByDate(Tail(srt), c)

\* the sort left out
sorted_commits_Unsorted(commits) == commits

RECURSIVE sorted_commits(_)
sorted_commits(commits) ==
    IF commits = <<>> THEN <<>>
    ELSE InsertByDate(sorted_commits(SubSeq(commits, 1, Len(commits) - 1)),
                      commits[Len(commits)])

\* total_commits counting distinct records
calculate_stats_Dedup(commits) ==
    LET srt == sorted_commits(commits)
    IN  [total_commits |-> Cardinality({commits[i] : i \in DOMAIN commits}),
         commits_by_date |-> CountByDate(commits, EmptyDict),
         first_commit |-> IF srt # <<>> THEN srt[1] ELSE None,
         last_commit |-> IF srt # <<>> THEN srt[Len(srt)] ELSE None]

calculate_stats(commits) ==
    IF commits = <<>>
    THEN [total_commits |-> 0, commits_by_date |-> EmptyDict,
          first_commit |-> None, last_commit |-> None]
    ELSE LET srt == sorted_commits(commits)
         IN  [total_commits |-> Len(commits),
              commits_by_date |-> CountByDate(commits, EmptyDict),
              first_commit |-> IF srt # <<>> THEN srt[1] ELSE None,
              last_commit |-> IF srt # <<>> THEN srt[Len(srt)] ELSE None]

(***************************************************************************)
(* generate_ascii_graph                                                    *)
(***************************************************************************)
GlyphNone == 183
GlyphLow == 9642
GlyphMedium == 9643
GlyphHigh == 9608

\* datetime.datetime.strptime(month, "%m").strftime("%b")
MonthAbbr ==
    << <<74, 97, 110>>, <<70, 101, 98>>, <<77, 97, 114>>, <<65, 112, 114>>,
       <<77, 97, 121>>, <<74, 117, 110>>, <<74, 117, 108>>, <<65, 117, 103>>,
       <<83, 101, 112>>, <<79, 99, 116>>, <<78, 111, 118>>, <<68, 101, 99>> >>

month_name(month) == MonthAbbr[(month[1] - 48) * 10 + (month[2] - 48)]

\* the while loop: one "%Y-%m-%d" string per day from current_date to end_date
RECURSIVE DateRangeFrom(_, _)
DateRangeFrom(current_date, end_date) ==
    IF DateLeq(current_date, end_date)
    THEN <<strftime_ymd(current_date)>> \o DateRangeFrom(NextDay(current_date), end_date)
    ELSE <<>>

\* the window starting one day early
date_range_OneDayEarly(end_date, n) == DateRangeFrom(DateMinus(end_date, n), end_date)

\* start_date = end_date - timedelta(days = days - 1), then the while loop
date_range(end_date, n) == DateRangeFrom(DateMinus(end_date, n - 1), end_date)

\* the loop over date_range that collects (len(months), month_name) pairs
RECURSIVE MonthsLoop(_, _, _)
MonthsLoop(dates, current_month, months) ==
    IF dates = <<>> THEN months
    ELSE LET month == split(Head(dates), 45)[2]
         IN  IF month # current_month
             THEN MonthsLoop(Tail(dates), month,
                             Append(months, <<Len(months), month_name(month)>>))
             ELSE MonthsLoop(Tail(dates), current_month, months)

\* month_header += " " * (pos * 2) + name, for each pair
RECURSIVE HeaderLoop(_, _)
HeaderLoop(months, month_header) ==
    IF months = <<>> THEN month_header
    ELSE HeaderLoop(Tail(months),
                    month_header \o Spaces(Head(months)[1] * 2) \o Head(months)[2])

\* commits_by_date.get(date_str, 0)
DictGet(dict, key, default) == IF key \in DOMAIN dict THEN dict[key] ELSE default

\* the low glyph reaching up to 5
glyph_LowUpToFive(count) ==
    IF count = 0 THEN GlyphNone
    ELSE IF count <= 5 THEN GlyphLow
    ELSE IF count < 10 THEN GlyphMedium
    ELSE GlyphHigh

\* the if / elif chain on count
glyph(count) ==
    IF count = 0 THEN GlyphNone
    ELSE IF count < 5 THEN GlyphLow
    ELSE IF count < 10 THEN GlyphMedium
    ELSE GlyphHigh

\* row += glyph; row += " ", for each date of date_range
RECURSIVE RowLoop(_, _, _)
RowLoop(dates, commits_by_date, row) ==
    IF dates = <<>> THEN row
    ELSE RowLoop(Tail(dates), commits_by_date,
                 row \o <<glyph(DictGet(commits_by_date, Head(dates), 0))>> \o Space)

Legend ==
    << <<10, 76, 101, 103, 101, 110, 100, 58>>,
       <<183, 32, 45, 32, 78, 111, 32, 99, 111, 109, 109, 105, 116, 115>>,
       <<9642, 32, 45, 32, 49, 45, 52, 32, 99, 111, 109, 109, 105, 116, 115>>,
       <<9643, 32, 45, 32, 53, 45, 57, 32, 99, 111, 109, 109, 105, 116, 115>>,
       <<9608, 32, 45, 32, 49, 48, 43, 32, 99, 111, 109, 109, 105, 116, 115>> >>

\* end_date stands for datetime.datetime.now().date()
generate_ascii_graph(commits_by_date, n, end_date) ==
    LET dates == date_range(end_date, n)
        months == MonthsLoop(dates, <<>>, <<>>)
        month_header == HeaderLoop(months, Spaces(4))
        row == RowLoop(dates, commits_by_date, Spaces(4))
    IN  join(Newline, <<month_header, row>> \o Legend)

(***************************************************************************)
(* Inputs.                                                                 *)
(***************************************************************************)
\* current dates: after a leap February, after a year's end, after a
\* common February
Todays == {<<2024, 3, 1>>, <<2024, 1, 2>>, <<2023, 3, 2>>}

RECURSIVE SeqsUpTo(_, _)
SeqsUpTo(S, n) ==
    IF n = 0 THEN {<<>>}
    ELSE LET shorter == SeqsUpTo(S, n - 1)
         IN  shorter \cup {Append(s, x) : s \in shorter, x \in S}

\* records handed to calculate_stats: two clones' worth of the same hashes,
\* the same day at different times of day and offsets, different days
StatsCommits ==
    {Commit(h, IsoDate(d, t)) :
        h \in {"h1", "h2"},
        d \in {<<2024, 1, 31>>, <<2024, 2, 1>>},
        t \in {TimeNoon, TimeWest}}

StartState ==
    /\ repos = <<>>
    /\ idx = 1
    /\ cwd = "orig"
    /\ graph = <<>>
    /\ calls = <<>>

(***************************************************************************)
(* calculate_stats applied to every bounded commit sequence.               *)
(***************************************************************************)
InitStats ==
    /\ StartState
    /\ pc = "stats_call"
    /\ stats = None
    /\ all_commits \in SeqsUpTo(StatsCommits, MaxCommits)
    /\ days = 1
    /\ today \in {<<2024, 2, 1>>}

ApplyCalculateStats ==
    /\ pc = "stats_call"
    /\ stats' = calculate_stats(all_commits)
    /\ pc' = "stats_done"
    /\ UNCHANGED <<repos, idx, all_commits, cwd, graph, calls, days, today>>

NextStats == ApplyCalculateStats

SpecStats == InitStats /\ [][NextStats]_vars

RECURSIVE SumOver(_, _)
SumOver(f, S) ==
    IF S = {} THEN 0
    ELSE LET k == CHOOSE x \in S : TRUE IN f[k] + SumOver(f, S \ {k})

Records(commits) == {commits[i] : i \in DOMAIN commits}

\* the date component of a timestamp: its first ten characters
DatePart(ts) == SubSeq(ts, 1, 10)

\* C1: total_commits of the result of calculate_stats is the number of
\* records of the input, the empty input and repeated records included;
\* repeated records are each counted.
C1_TotalIsLength ==
    pc = "stats_done" => stats.total_commits = Len(all_commits)

C1_Witness ==
    /\ pc = "stats_done"
    /\ \E i, j \in DOMAIN all_commits : i < j /\ all_commits[i] = all_commits[j]
    /\ stats.total_commits = Len(all_commits)
    /\ stats.total_commits > Cardinality(Records(all_commits))

\* C2: total_commits is the sum of the values of commits_by_date, whose keys
\* are the date components of the input's timestamps and whose value at a
\* key is the number of records with that date component, whatever their
\* time of day or offset.
C2_TotalIsBucketSum ==
    pc = "stats_done" =>
        LET cbd == stats.commits_by_date
        IN  /\ stats.total_commits = SumOver(cbd, DOMAIN cbd)
            /\ DOMAIN cbd = {DatePart(all_commits[i].date) : i \in DOMAIN all_commits}
            /\ \A k \in DOMAIN cbd :
                   cbd[k] = Cardinality({i \in DOMAIN all_commits :
                                            DatePart(all_commits[i].date) = k})

C2_Witness ==
    /\ pc = "stats_done"
    /\ \E i, j \in DOMAIN all_commits :
           /\ all_commits[i].date # all_commits[j].date
           /\ DatePart(all_commits[i].date) = DatePart(all_commits[j].date)
           /\ stats.commits_by_date[DatePart(all_commits[i].date)] = 2
    /\ Cardinality(DOMAIN stats.commits_by_date) = 2

\* C3: first_commit and last_commit are None exactly when the input is
\* empty; otherwise first_commit is a record of the input with the least
\* timestamp and last_commit one with the greatest, under string ordering,
\* so first_commit's timestamp is not greater than last_commit's.
C3_FirstLast ==
    pc = "stats_done" =>
        /\ (stats.first_commit = None) <=> (all_commits = <<>>)
        /\ (stats.last_commit = None) <=> (all_commits = <<>>)
        /\ all_commits # <<>> =>
               /\ stats.first_commit \in Records(all_commits)
               /\ stats.last_commit \in Records(all_commits)
               /\ \A c \in Records(all_commits) :
                      /\ StrLeq(stats.first_commit.date, c.date)
                      /\ StrLeq(c.date, stats.last_commit.date)
               /\ StrLeq(stats.first_commit.date, stats.last_commit.date)

C3_Witness ==
    /\ pc = "stats_done"
    /\ Len(all_commits) = 3
    /\ StrLess(all_commits[2].date, all_commits[3].date)
    /\ StrLess(all_commits[3].date, all_commits[1].date)
    /\ stats.first_commit = all_commits[2]
    /\ stats.last_commit = all_commits[1]

(***************************************************************************)
(* generate_ascii_graph applied to bounded bucket maps, window lengths and *)
(* current dates.                                                          *)
(***************************************************************************)
\* the day counts on both sides of every threshold
Counts == {1, 4, 5, 9, 10}

\* keys for the days of the largest window and the day before it
KeysAround(end_date) == {strftime_ymd(DateMinus(end_date, k)) : k \in 0..MaxDays}

BucketMaps(end_date) ==
    UNION {[K -> Counts] :
              K \in {S \in SUBSET KeysAround(end_date) : Cardinality(S) <= MaxKeys}}

\* the Statistics whose buckets are m: m[k] records at noon of each day k
StatsOfBuckets(m) ==
    IF DOMAIN m = {}
    THEN [total_commits |-> 0, commits_by_date |-> EmptyDict,
          first_commit |-> None, last_commit |-> None]
    ELSE LET lo == CHOOSE k \in DOMAIN m : \A j \in DOMAIN m : StrLeq(k, j)
             hi == CHOOSE k \in DOMAIN m : \A j \in DOMAIN m : StrLeq(j, k)
         IN  [total_commits |-> SumOver(m, DOMAIN m), commits_by_date |-> m,
              first_commit |-> Commit("h1", lo \o Space \o TimeNoon),
              last_commit |-> Commit("h1", hi \o Space \o TimeNoon)]

InitGraph ==
    /\ StartState
    /\ pc = "graph_call"
    /\ all_commits = <<>>
    /\ today \in Todays
    /\ days \in 1..MaxDays
    /\ stats \in {StatsOfBuckets(m) : m \in BucketMaps(today)}

ApplyGenerateGraph ==
    /\ pc = "graph_call"
    /\ graph' = generate_ascii_graph(stats.commits_by_date, days, today)
    /\ pc' = "graph_done"
    /\ UNCHANGED <<repos, idx, all_commits, cwd, stats, calls, days, today>>

NextGraph == ApplyGenerateGraph

SpecGraph == InitGraph /\ [][NextGraph]_vars

\* the lines of the rendered text
HeaderLine == split(graph, 10)[1]
DensityRow == split(graph, 10)[2]

\* "YYYY-MM-DD" read back as <<year, month, day>>
ParseDate(str) ==
    << (str[1] - 48) * 1000 + (str[2] - 48) * 100 + (str[3] - 48) * 10 + (str[4] - 48),
       (str[6] - 48) * 10 + (str[7] - 48),
       (str[9] - 48) * 10 + (str[10] - 48) >>

\* the number of a day in the proleptic Gregorian calendar (days from civil)
DayNumber(d) ==
    LET y == IF d[2] <= 2 THEN d[1] - 1 ELSE d[1]
        mp == IF d[2] > 2 THEN d[2] - 3 ELSE d[2] + 9
        doy == (153 * mp + 2) \div 5 + d[3] - 1
    IN  365 * y + y \div 4 - y \div 100 + y \div 400 + doy

Window == date_range(today, days)

\* the days of the window on which a month label is due
LabelDays ==
    {i \in 1..Len(Window) :
        i = 1 \/ ParseDate(Window[i])[2] # ParseDate(Window[i - 1])[2]}

\* C4: every month label of the header row, one for the first day of the
\* window and one for each day whose month differs from the day before,
\* starts at column 4 + 2 * dayIndex, above that day's glyph.
C4_LabelAboveItsDay ==
    pc = "graph_done" =>
        \A i \in LabelDays :
            LET col == 4 + 2 * (i - 1)
            IN  /\ Len(HeaderLine) >= col + 3
                /\ SubSeq(HeaderLine, col + 1, col + 3)
                       = MonthAbbr[ParseDate(Window[i])[2]]

\* the glyph the thresholds give a count
TierGlyph(count) ==
    CASE count = 0 -> 183
      [] count \in 1..4 -> 9642
      [] count \in 5..9 -> 9643
      [] count >= 10 -> 9608

CountOn(key) == IF key \in DOMAIN stats.commits_by_date
                THEN stats.commits_by_date[key] ELSE 0

\* C5: the density row has a 4-cell gutter and then exactly `days` glyphs,
\* each followed by one separator cell; the i-th glyph (from 0) is that of
\* calendar day today - (days - 1) + i, so the closed window
\* [today - (days - 1), today] is covered in ascending order.
C5_RowCoversWindow ==
    pc = "graph_done" =>
        LET win == Window
            row == DensityRow
        IN  /\ Len(win) = days
            /\ Len(row) = 4 + 2 * days
            /\ SubSeq(row, 1, 4) = <<32, 32, 32, 32>>
            /\ \A i \in 0..(days - 1) :
                  /\ DayNumber(ParseDate(win[i + 1]))
                         = DayNumber(today) - (days - 1) + i
                  /\ row[5 + 2 * i] = TierGlyph(CountOn(win[i + 1]))
                  /\ row[6 + 2 * i] = 32

C5_Witness ==
    /\ pc = "graph_done"
    /\ days = 3
    /\ today = <<2024, 3, 1>>
    /\ Window = <<strftime_ymd(<<2024, 2, 28>>), strftime_ymd(<<2024, 2, 29>>),
                  strftime_ymd(<<2024, 3, 1>>)>>
    /\ CountOn(Window[1]) > 0
    /\ CountOn(Window[3]) > 0
    /\ Len(DensityRow) = 10
    /\ DensityRow[5] # 183
    /\ DensityRow[7] = 183
    /\ DensityRow[9] # 183

\* C6: the glyph of every day of the window depends only on that day's count
\* in commits_by_date, an absent key counting 0: none for 0, low for 1..4,
\* medium for 5..9, high for 10 and more.
C6_GlyphByCount ==
    pc = "graph_done" =>
        LET win == Window
            row == DensityRow
        IN  \A i \in 1..Len(win) :
                LET count == CountOn(win[i])
                    g == row[3 + 2 * i]
                IN  /\ count = 0 => g = 183
                    /\ (1 <= count /\ count <= 4) => g = 9642
                    /\ (5 <= count /\ count <= 9) => g = 9643
                    /\ count >= 10 => g = 9608

C6_Witness ==
    /\ pc = "graph_done"
    /\ days >= 3
    /\ CountOn(Window[1]) = 5
    /\ CountOn(Window[2]) = 0
    /\ CountOn(Window[3]) = 10
    /\ DensityRow[5] = 9643
    /\ DensityRow[7] = 183
    /\ DensityRow[9] = 9608

(***************************************************************************)
(* main, from the discovery of the repositories on.                        *)
(***************************************************************************)
MainTodays == {<<2024, 3, 1>>}

RepoPaths == <<"./a", "./b", "./c", "./d">>

\* what find_git_repositories may return: os.walk names each directory once
RepoLists == {[i \in 1..k |-> RepoPaths[i]] : k \in 0..MaxRepos}

\* the author's commits a repository may hold: today at noon, on the day
\* before the rendered window late and early, and one with a double quote in
\* its subject
Histories(now, n) ==
    SeqsUpTo({HistoryCommit("h1", IsoDate(now, TimeNoon), FALSE),
              HistoryCommit("h2", IsoDate(DateMinus(now, n), TimeLate), FALSE),
              HistoryCommit("h3", IsoDate(DateMinus(now, n), TimeNoon), FALSE),
              HistoryCommit("h4", IsoDate(now, TimeNoon), TRUE)}, MaxPerRepo)

\* what a call may meet: a directory that cannot be entered, a git that
\* cannot be started or exits with an error, or a git that prints the history
Environments(now, n) ==
    {[chdir |-> "OSError", git |-> "ok", history |-> <<>>]}
    \cup [chdir : {"ok"}, git : {"CalledProcessError", "FileNotFoundError"},
          history : {<<>>}]
    \cup [chdir : {"ok"}, git : {"ok"}, history : Histories(now, n)]

Init ==
    /\ StartState
    /\ pc = "find"
    /\ stats = None
    /\ all_commits = <<>>
    /\ days \in 1..MaxDays
    /\ today \in MainTodays

\* repos = find_git_repositories(args.root); if not repos: ... return
FindRepos ==
    /\ pc = "find"
    /\ repos' \in RepoLists
    /\ pc' = IF repos' = <<>> THEN "done" ELSE "loop"
    /\ UNCHANGED <<idx, all_commits, cwd, stats, graph, calls, days, today>>

\* one turn of "for repo in repos": get_commits and all_commits.extend
QueryRepo ==
    /\ pc = "loop"
    /\ idx <= Len(repos)
    /\ \E env \in Environments(today, days) :
          LET r == get_commits(repos[idx], days, today, cwd, env)
          IN  /\ calls' = Append(calls, [repo |-> repos[idx], cwd_before |-> cwd,
                                         cwd_after |-> r.cwd, outcome |-> r.outcome,
                                         raised |-> r.raised, result |-> r.result])
              /\ cwd' = r.cwd
              /\ IF r.raised
                 THEN /\ pc' = "crashed"
                      /\ UNCHANGED <<idx, all_commits>>
                 ELSE /\ all_commits' = all_commits \o r.result
                      /\ idx' = idx + 1
                      /\ pc' = IF idx + 1 > Len(repos) THEN "calc" ELSE "loop"
    /\ UNCHANGED <<repos, stats, graph, days, today>>

\* stats = calculate_stats(all_commits)
CalcStats ==
    /\ pc = "calc"
    /\ stats' = calculate_stats(all_commits)
    /\ pc' = "print"
    /\ UNCHANGED <<repos, idx, all_commits, cwd, graph, calls, days, today>>

\* if stats['total_commits'] > 0: graph = generate_ascii_graph(...); print(graph)
PrintGraph ==
    /\ pc = "print"
    /\ graph' = IF stats.total_commits > 0
                THEN generate_ascii_graph(stats.commits_by_date, days, today)
                ELSE graph
    /\ pc' = "done"
    /\ UNCHANGED <<repos, idx, all_commits, cwd, stats, calls, days, today>>

Next == FindRepos \/ QueryRepo \/ CalcStats \/ PrintGraph

Spec == Init /\ [][Next]_vars

Queried == [i \in DOMAIN calls |-> calls[i].repo]

Rendered == graph # <<>>

RECURSIVE ResultsOfOk(_)
ResultsOfOk(cs) ==
    IF cs = <<>> THEN <<>>
    ELSE (IF Head(cs).outcome = "ok" THEN Head(cs).result ELSE <<>>)
             \o ResultsOfOk(Tail(cs))

\* C7: a run of main that discovers no repository ends without a query,
\* statistics or a heatmap; any other run queries every discovered
\* repository once, in discovery order, computes the statistics after the
\* last query and renders the heatmap exactly if total_commits > 0.
C7_MainFlow ==
    /\ stats # None => Queried = repos
    /\ pc \in {"done", "crashed"} =>
          IF repos = <<>>
          THEN calls = <<>> /\ stats = None /\ ~Rendered
          ELSE /\ Queried = repos
               /\ stats # None
               /\ Rendered <=> stats.total_commits > 0

\* C8: a repository that cannot be queried (chdir fails, git is missing or
\* exits with an error, a record line does not parse) makes get_commits
\* return the empty list; nothing is raised into main, which goes on, and the
\* aggregate is the commits of the repositories whose queries succeeded.
C8_FailureGivesEmpty ==
    /\ \A i \in DOMAIN calls :
          calls[i].outcome # "ok" => ~calls[i].raised /\ calls[i].result = <<>>
    /\ pc # "crashed"
    /\ pc \in {"calc", "print", "done"} => all_commits = ResultsOfOk(calls)

RECURSIVE SumCounts(_)
SumCounts(keys) ==
    IF keys = <<>> THEN 0 ELSE CountOn(Head(keys)) + SumCounts(Tail(keys))

\* C10: the window get_commits queries and the window the heatmap shows
\* agree: the counts behind the glyphs of a printed heatmap sum to
\* total_commits, and one glyph at least is not the no-activity glyph.
C10_WindowsAgree ==
    (pc = "done" /\ Rendered) =>
        /\ SumCounts(Window) = stats.total_commits
        /\ \E i \in 1..Len(Window) : DensityRow[3 + 2 * i] # 183

====
